---- MODULE Spec2Model ----
(***************************************************************************)
(* Pranayama Breath Timer (src/script.js): the phase-cycling timer, the    *)
(* session lifecycle, the three stores (history, session summaries,        *)
(* progress per day), their localStorage blobs and the range queries.      *)
(*                                                                         *)
(* Text values (input.value, select.value) are tuples of one-character     *)
(* strings, so that parseInt is computed and not assumed.  The wall clock  *)
(* is an integer counting units of 1/TicksPerDay of a day; a Date is that  *)
(* integer, a locale date string (toLocaleDateString / toDateString) is    *)
(* the day number, and parsing a date string yields that day's midnight.   *)
(***************************************************************************)
EXTENDS Integers, Sequences, FiniteSets, TLC

\* ------------------------------------------------------------ bounds
MaxHistory == 3          \* phase completions logged before the model stops ticking
MaxSessions == 1         \* session summaries stored before reset stops finalizing
MaxCycles == 1          \* full cycles counted in one session
MaxNow == 1              \* last instant of the wall clock
MaxFaults == 1          \* localStorage.setItem calls that throw in one behaviour
TicksPerDay == 1         \* clock units per calendar day

\* ------------------------------------------------------------ text
AllText == <<"a", "l", "l">>
DigitChars == <<"0", "1", "2", "3", "4", "5", "6", "7", "8", "9">>
IsDigit(c) == \E i \in 1..10 : DigitChars[i] = c
DigitVal(c) == (CHOOSE i \in 1..10 : DigitChars[i] = c) - 1

NaN == [nan |-> TRUE, val |-> 0]
Num(n) == [nan |-> FALSE, val |-> n]

RECURSIVE ParseDigits(_, _, _)
ParseDigits(s, i, acc) ==
    IF i > Len(s) \/ ~IsDigit(s[i]) THEN acc
    ELSE ParseDigits(s, i + 1, acc * 10 + DigitVal(s[i]))

\* parseInt(text): optional sign, then the longest run of digits; NaN if none
ParseInt(s) ==
    LET signed == Len(s) > 0 /\ s[1] \in {"-", "+"}
        first == IF signed THEN 2 ELSE 1
        mag == ParseDigits(s, first, 0)
    IN  IF first > Len(s) \/ ~IsDigit(s[first]) THEN NaN
        ELSE Num(IF signed /\ s[1] = "-" THEN 0 - mag ELSE mag)

\* a default that replaces NaN only
OrDefaultNaNOnly(x, d) == IF x.nan THEN d ELSE x.val
\* x || d : d when x is falsy (NaN or 0)
OrDefault(x, d) == IF x.nan \/ x.val = 0 THEN d ELSE x.val
Max(a, b) == IF a >= b THEN a ELSE b

RECURSIVE Digits(_)
Digits(n) == IF n < 0 THEN <<"-">> \o Digits(0 - n)
             ELSE IF n < 10 THEN <<DigitChars[n + 1]>>
             ELSE Append(Digits(n \div 10), DigitChars[(n % 10) + 1])
\* String(n).padStart(2, "0")
PadStart2(n) == IF Len(Digits(n)) < 2 THEN <<"0">> \o Digits(n) ELSE Digits(n)

\* ------------------------------------------------------------ dates
DateKey(t) == t \div TicksPerDay            \* toLocaleDateString / toDateString
ParseDate(k) == k * TicksPerDay             \* new Date(dateString): local midnight
\* a cutoff that keeps N + 1 days
CutoffOneDayMore(t, days) == ParseDate(DateKey(t - days * TicksPerDay))
\* cutoff of "last N days": setDate(getDate() - (days - 1)), then its midnight
Cutoff(t, days) == ParseDate(DateKey(t - (days - 1) * TicksPerDay))


\* ------------------------------------------------------------ state
VARIABLES
    inhaleInput, holdInput, exhaleInput,   \* the three duration inputs' text
    reportRange,                           \* the range select's value
    phaseDisplay, timeDisplay, pauseBtnText,
    cycle, cycleIndex, timeLeft,
    timerId,                               \* 0 (null) or the id setInterval returned
    intervals,                             \* live intervals: id -> the callback's `current`
    running, paused,
    sessionStartTime, sessionCycles, sessionActive,
    historyData, sessionSummaries, progressData,
    chart,                                 \* what buildChart was last given
    stHistory, stSessions, stProgress,     \* localStorage items: <<>> absent, <<v>> present
    pdf,                                   \* the report the step just taken produced, if any
    now,                                   \* the wall clock
    lastOp,                                \* history: which of start, tick, reset the step
                                           \* just taken ran ("other": none of them)
    faults,                                \* history: setItem calls that threw so far
    run                                    \* history: the uninterrupted run since start

progVars == <<inhaleInput, holdInput, exhaleInput, reportRange, phaseDisplay,
              timeDisplay, pauseBtnText, cycle, cycleIndex, timeLeft, timerId,
              intervals, running, paused, sessionStartTime, sessionCycles,
              sessionActive, historyData, sessionSummaries, progressData, chart,
              stHistory, stSessions, stProgress, pdf, now>>
vars == <<progVars, lastOp, faults, run>>

NoTime == 0 - 1                     \* sessionStartTime = null
PressStart == "Press Start"
NoChart == [labels |-> <<>>, values |-> <<>>]
NoPdf == [range |-> <<>>, history |-> <<>>, progress |-> <<>>, live |-> FALSE]
NoRun == [clean |-> FALSE, ticks |-> 0, base |-> 0, cfg |-> <<>>]

\* The program state as one record, so that a handler is a composition of the
\* functions it calls.  threw / writes / failAt follow one handler's execution:
\* the failAt-th localStorage.setItem of the handler throws (0: none does) and
\* the exception unwinds the rest of the handler.
Cur(f) ==
    [inhaleInput |-> inhaleInput, holdInput |-> holdInput, exhaleInput |-> exhaleInput,
     reportRange |-> reportRange, phaseDisplay |-> phaseDisplay,
     timeDisplay |-> timeDisplay, pauseBtnText |-> pauseBtnText, cycle |-> cycle,
     cycleIndex |-> cycleIndex, timeLeft |-> timeLeft, timerId |-> timerId,
     intervals |-> intervals, running |-> running, paused |-> paused,
     sessionStartTime |-> sessionStartTime, sessionCycles |-> sessionCycles,
     sessionActive |-> sessionActive, historyData |-> historyData,
     sessionSummaries |-> sessionSummaries, progressData |-> progressData,
     chart |-> chart, stHistory |-> stHistory, stSessions |-> stSessions,
     stProgress |-> stProgress, pdf |-> NoPdf, now |-> now,
     threw |-> FALSE, writes |-> 0, failAt |-> f]

Commit(s) ==
    /\ inhaleInput' = s.inhaleInput /\ holdInput' = s.holdInput
    /\ exhaleInput' = s.exhaleInput /\ reportRange' = s.reportRange
    /\ phaseDisplay' = s.phaseDisplay /\ timeDisplay' = s.timeDisplay
    /\ pauseBtnText' = s.pauseBtnText /\ cycle' = s.cycle
    /\ cycleIndex' = s.cycleIndex /\ timeLeft' = s.timeLeft
    /\ timerId' = s.timerId /\ intervals' = s.intervals
    /\ running' = s.running /\ paused' = s.paused
    /\ sessionStartTime' = s.sessionStartTime /\ sessionCycles' = s.sessionCycles
    /\ sessionActive' = s.sessionActive /\ historyData' = s.historyData
    /\ sessionSummaries' = s.sessionSummaries /\ progressData' = s.progressData
    /\ chart' = s.chart /\ stHistory' = s.stHistory /\ stSessions' = s.stSessions
    /\ stProgress' = s.stProgress /\ pdf' = s.pdf /\ now' = s.now


\* ------------------------------------------------------------ persistence
\* localStorage.setItem(item, JSON.stringify(value)); it may throw (quota, disabled storage)
SetItem(s, item, value) ==
    IF s.threw THEN s
    ELSE IF s.writes + 1 = s.failAt
         THEN [s EXCEPT !.threw = TRUE, !.writes = @ + 1]
         ELSE [s EXCEPT ![item] = <<value>>, !.writes = @ + 1]

saveHistoryToStorage(s) == SetItem(s, "stHistory", s.historyData)
saveSessionsToStorage(s) == SetItem(s, "stSessions", s.sessionSummaries)
saveProgressToStorage(s) == SetItem(s, "stProgress", s.progressData)

\* JSON.parse(JSON.stringify(n)) of an integer: its decimal text, read back
JsonNumber(n) == ParseInt(Digits(n)).val
\* strings (timestamps, phase names, texts, day keys) come back as they went
JsonEntry(e) == [e EXCEPT !.duration = JsonNumber(@)]
JsonSummary(m) ==
    [m EXCEPT !.cycles = JsonNumber(@), !.durationSec = JsonNumber(@),
              !.inhale = JsonNumber(@), !.hold = JsonNumber(@), !.exhale = JsonNumber(@)]
JsonProgress(p) == [k \in DOMAIN p |-> JsonNumber(p[k])]

\* an absent item leaves the variable at its initial value; an item the program
\* wrote always parses and holds no old-format (string) entry
loadFromStorage(s) ==
    [s EXCEPT
        !.historyData = IF s.stHistory = <<>> THEN @
                        ELSE [i \in 1..Len(s.stHistory[1]) |-> JsonEntry(s.stHistory[1][i])],
        !.sessionSummaries = IF s.stSessions = <<>> THEN @
                             ELSE [i \in 1..Len(s.stSessions[1]) |->
                                      JsonSummary(s.stSessions[1][i])],
        !.progressData = IF s.stProgress = <<>> THEN @
                         ELSE JsonProgress(s.stProgress[1])]

\* ------------------------------------------------------------ range queries
RECURSIVE SortKeys(_)
SortKeys(S) ==
    IF S = {} THEN <<>>
    ELSE LET m == CHOOSE x \in S : \A y \in S : ParseDate(x) <= ParseDate(y)
         IN  <<m>> \o SortKeys(S \ {m})

Get0(p, k) == IF k \in DOMAIN p THEN p[k] ELSE 0       \* p[k] || 0

\* d >= new Date(cutoff.toDateString()); every comparison with an Invalid Date is false
InRange(t, range, d) ==
    LET days == ParseInt(range)
    IN  ~days.nan /\ d >= Cutoff(t, days.val)

filterHistoryByRange(hist, range, t) ==
    IF range = AllText THEN hist
    ELSE SelectSeq(hist, LAMBDA h : InRange(t, range, h.ts))

\* the {label: count} object as the sequence of its entries in key order
filteredProgressForRange(prog, range, t) ==
    LET arr == SortKeys(DOMAIN prog)
        kept == IF range = AllText THEN arr
                ELSE SelectSeq(arr, LAMBDA k : InRange(t, range, ParseDate(k)))
    IN  [i \in 1..Len(kept) |-> <<kept[i], prog[kept[i]]>>]

ChartWindow == 7
updateChart(s, rangeValue) ==
    IF s.threw THEN s
    ELSE LET allDates == SortKeys(DOMAIN s.progressData)
             picked == IF rangeValue = AllText THEN allDates
                       ELSE SelectSeq(allDates,
                                LAMBDA d : InRange(s.now, rangeValue, ParseDate(d)))
             labels == IF Len(picked) = 0
                       THEN [i \in 1..ChartWindow |->
                                DateKey(s.now - (ChartWindow - i) * TicksPerDay)]
                       ELSE picked
             values == [i \in 1..Len(labels) |-> Get0(s.progressData, labels[i])]
         IN  [s EXCEPT !.chart = [labels |-> labels, values |-> values]]


\* ------------------------------------------------------------ core timer logic
DefaultInhale == 4
DefaultHold == 7
DefaultExhale == 8

\* a duration taken without the lower bound
DurationUnclamped(text, dflt) == OrDefault(ParseInt(text), dflt)
\* Math.max(1, parseInt(text) || dflt)
DurationFrom(text, dflt) == Max(1, OrDefault(ParseInt(text), dflt))

setupCycleFromInputs(s) ==
    [s EXCEPT !.cycle =
        << [phase |-> "Inhale", duration |-> DurationFrom(s.inhaleInput, DefaultInhale)],
           [phase |-> "Hold", duration |-> DurationFrom(s.holdInput, DefaultHold)],
           [phase |-> "Exhale", duration |-> DurationFrom(s.exhaleInput, DefaultExhale)] >>]

Restrict(f, D) == [x \in D |-> f[x]]
\* a cancellation that cancels nothing
clearIntervalNever(s, id) == s
\* clearInterval(id): an unknown or already cleared id is ignored
clearInterval(s, id) == [s EXCEPT !.intervals = Restrict(@, DOMAIN @ \ {id})]
\* setInterval(callback, 1000): a fresh id; the callback closes over `current`
setInterval(s, current) ==
    LET id == CHOOSE i \in 1..(Cardinality(DOMAIN s.intervals) + 2) :
                    /\ i \notin DOMAIN s.intervals \cup {s.timerId}
                    /\ \A j \in 1..(i - 1) : j \in DOMAIN s.intervals \cup {s.timerId}
    IN  [s EXCEPT !.intervals = [x \in DOMAIN @ \cup {id} |->
                                    IF x = id THEN current ELSE @[x]],
                  !.timerId = id]

startPhase(s) ==
    IF s.threw THEN s
    ELSE LET current == s.cycle[s.cycleIndex + 1]
             s1 == [s EXCEPT !.phaseDisplay = current.phase,
                             !.timeDisplay = PadStart2(current.duration),
                             !.timeLeft = current.duration]
         IN  setInterval(clearInterval(s1, s1.timerId), current)

StartGuardOpen(s) == TRUE
StartGuard(s) == ~s.running                       \* if (running) return;

startCycle(s) ==
    IF ~StartGuard(s) THEN s
    ELSE LET s1 == setupCycleFromInputs(s)
             s2 == [s1 EXCEPT !.running = TRUE, !.paused = FALSE, !.cycleIndex = 0,
                              !.timeLeft = s1.cycle[1].duration]
             s3 == IF ~s2.sessionActive
                   THEN [s2 EXCEPT !.sessionActive = TRUE, !.sessionStartTime = s2.now,
                                   !.sessionCycles = 0]
                   ELSE s2
         IN  startPhase(s3)

\* ------------------------------------------------------------ history / progress
EntryText(phase, duration) == <<phase, " ", "(">> \o Digits(duration) \o <<"s", ")">>

PushEntryFront(hist, entry) == <<entry>> \o hist
PushEntry(hist, entry) == Append(hist, entry)      \* historyData.push(entry)

addHistoryPhase(s, phase, duration) ==
    IF s.threw THEN s
    ELSE LET entry == [ts |-> s.now, phase |-> phase, duration |-> duration,
                       text |-> EntryText(phase, duration)]
         IN  saveHistoryToStorage([s EXCEPT !.historyData = PushEntry(@, entry)])

addProgressForToday(s, count) ==
    IF s.threw THEN s
    ELSE LET key == DateKey(s.now)
             p == s.progressData
         IN  saveProgressToStorage(
                [s EXCEPT !.progressData = [k \in DOMAIN p \cup {key} |->
                                IF k = key THEN Get0(p, key) + count ELSE p[k]]])

SecondsPerTick == 86400 \div TicksPerDay
SummaryDuration(text, dflt) == OrDefault(ParseInt(text), dflt)   \* parseInt(text) || dflt

\* a finalize that does not ask whether a session is active
finalizeSessionAlways(s) ==
    IF s.threw THEN s
    ELSE LET end == s.now
             start == IF s.sessionStartTime = NoTime THEN end ELSE s.sessionStartTime
             summary == [startISO |-> start, endISO |-> end, cycles |-> s.sessionCycles,
                         durationSec |-> (end - start) * SecondsPerTick,
                         inhale |-> SummaryDuration(s.inhaleInput, DefaultInhale),
                         hold |-> SummaryDuration(s.holdInput, DefaultHold),
                         exhale |-> SummaryDuration(s.exhaleInput, DefaultExhale)]
         IN  saveSessionsToStorage(
                [s EXCEPT !.sessionActive = FALSE,
                          !.sessionSummaries = Append(@, summary)])

finalizeSessionIfActive(s) ==
    IF s.threw \/ ~s.sessionActive THEN s
    ELSE LET end == s.now
             start == IF s.sessionStartTime = NoTime THEN end ELSE s.sessionStartTime
             summary == [startISO |-> start, endISO |-> end, cycles |-> s.sessionCycles,
                         durationSec |-> (end - start) * SecondsPerTick,
                         inhale |-> SummaryDuration(s.inhaleInput, DefaultInhale),
                         hold |-> SummaryDuration(s.holdInput, DefaultHold),
                         exhale |-> SummaryDuration(s.exhaleInput, DefaultExhale)]
         IN  saveSessionsToStorage(
                [s EXCEPT !.sessionActive = FALSE,
                          !.sessionSummaries = Append(@, summary)])


ToLowerCase(p) ==
    IF p = "Inhale" THEN "inhale" ELSE IF p = "Hold" THEN "hold"
    ELSE IF p = "Exhale" THEN "exhale" ELSE p

TickElapsesPaused(s) == TRUE
TickElapses(s) == ~s.paused                       \* if (paused) return;
NextIndex(i, n) == (i + 1) % n                    \* (cycleIndex + 1) % cycle.length

\* the Exhale branch of a phase completion; the clock moves on by adv between the
\* entry's timestamp (nowISO() in addHistoryPhase) and the day key read here
completeCycle(s, adv) ==
    IF s.threw THEN s
    ELSE LET s1 == [s EXCEPT !.sessionCycles = @ + 1, !.now = @ + adv]
             s2 == addProgressForToday(s1, 1)
             s3 == saveProgressToStorage(s2)
         IN  updateChart(s3, s3.reportRange)

\* the setInterval callback of the interval id
tick(s, id, adv) ==
    LET current == s.intervals[id]
    IN  IF ~TickElapses(s) THEN s
        ELSE LET s1 == [s EXCEPT !.timeLeft = @ - 1, !.timeDisplay = PadStart2(s.timeLeft - 1)]
             IN  IF s1.timeLeft > 0 THEN s1
                 ELSE LET s2 == clearInterval(s1, s1.timerId)
                          s3 == addHistoryPhase(s2, current.phase, current.duration)
                          s4 == IF s3.threw THEN s3
                                ELSE [s3 EXCEPT !.cycleIndex = NextIndex(@, Len(s3.cycle))]
                          s5 == IF ToLowerCase(current.phase) = "exhale"
                                THEN completeCycle(s4, adv) ELSE s4
                      IN  startPhase(s5)

\* a toggle that does not ask whether the engine is running
pauseOrResumeAnytime(s) ==
    [s EXCEPT !.paused = ~s.paused,
              !.pauseBtnText = IF ~s.paused THEN "Resume" ELSE "Pause"]

pauseOrResume(s) ==
    IF ~s.running THEN s
    ELSE [s EXCEPT !.paused = ~s.paused,
                   !.pauseBtnText = IF ~s.paused THEN "Resume" ELSE "Pause"]

resetCycle(s) ==
    LET s1 == finalizeSessionIfActive(s)
    IN  IF s1.threw THEN s1
        ELSE [clearInterval(s1, s1.timerId) EXCEPT
                 !.running = FALSE, !.paused = FALSE, !.sessionActive = FALSE,
                 !.sessionStartTime = NoTime, !.sessionCycles = 0, !.cycleIndex = 0,
                 !.timeLeft = 0, !.phaseDisplay = PressStart,
                 !.timeDisplay = <<"0", "0">>, !.pauseBtnText = "Pause"]

clearAllHistory(s, confirmed) ==
    IF ~confirmed THEN s
    ELSE LET s1 == [s EXCEPT !.historyData = <<>>, !.sessionSummaries = <<>>,
                             !.progressData = <<>>]
             s2 == saveProgressToStorage(saveSessionsToStorage(saveHistoryToStorage(s1)))
         IN  updateChart(s2, s2.reportRange)

exportFullPDF(s) ==
    [s EXCEPT !.pdf = [range |-> s.reportRange,
                       history |-> filterHistoryByRange(s.historyData, s.reportRange, s.now),
                       progress |-> filteredProgressForRange(s.progressData, s.reportRange, s.now),
                       live |-> s.sessionActive]]

rangeChanged(s, r) == updateChart([s EXCEPT !.reportRange = r], r)


\* ------------------------------------------------------------ inputs
InhaleValues == { <<"2">>, <<"-", "1">> }
HoldValues == { <<"1">> }
ExhaleValues == { <<"1">> }
EditChoices == ({"inhaleInput"} \X InhaleValues) \cup ({"holdInput"} \X HoldValues)
                   \cup ({"exhaleInput"} \X ExhaleValues)
RangeValues == { AllText, <<"1">> }
FailPoints == 0..3                  \* which setItem of a handler throws; 0: none
Thrown(s) == IF s.threw THEN 1 ELSE 0

\* ------------------------------------------------------------ actions
\* lastOp is recorded in the behaviours that start with it switched on (SpecTraced)
Label(name) == IF lastOp = "untraced" THEN "untraced" ELSE name

\* an edit that reconfigures the cycle at once
EditInputLive(field, v) ==
    /\ v # Cur(0)[field]
    /\ Commit(setupCycleFromInputs([Cur(0) EXCEPT ![field] = v]))
    /\ UNCHANGED <<faults, run>>
    /\ lastOp' = Label("other")

\* the user types v into one of the duration inputs
EditInput(field, v) ==
    /\ v # Cur(0)[field]
    /\ Commit([Cur(0) EXCEPT ![field] = v])
    /\ UNCHANGED <<faults, run>>
    /\ lastOp' = Label("other")

ClockAdvance ==
    /\ now < MaxNow
    /\ Commit([Cur(0) EXCEPT !.now = @ + 1])
    /\ UNCHANGED <<faults, run>>
    /\ lastOp' = Label("other")

Start ==
    /\ running \/ Len(sessionSummaries) < MaxSessions
    /\ Commit(startCycle(Cur(0)))
    /\ UNCHANGED faults
    /\ run' = IF running THEN run
              ELSE [clean |-> TRUE, ticks |-> 0, base |-> Len(historyData),
                    cfg |-> <<inhaleInput, holdInput, exhaleInput>>]
    /\ lastOp' = Label("start")

Tick(id, failAt, adv) ==
    /\ id \in DOMAIN intervals
    /\ now + adv <= MaxNow
    /\ paused \/ timeLeft > 1
          \/ (Len(historyData) < MaxHistory /\ sessionCycles < MaxCycles)
    /\ failAt # 0 => faults < MaxFaults
    /\ adv # 0 => (~paused /\ timeLeft <= 1)
    /\ Commit(tick(Cur(failAt), id, adv))
    /\ faults' = faults + Thrown(tick(Cur(failAt), id, adv))
    /\ run' = IF run.clean /\ ~paused THEN [run EXCEPT !.ticks = @ + 1] ELSE run
    /\ lastOp' = Label("tick")

PauseOrResume ==
    /\ Commit(pauseOrResume(Cur(0)))
    /\ faults' = faults
    /\ run' = IF running THEN NoRun ELSE run
    /\ lastOp' = Label("other")

Reset(failAt) ==
    /\ failAt # 0 => faults < MaxFaults
    /\ Commit(resetCycle(Cur(failAt)))
    /\ faults' = faults + Thrown(resetCycle(Cur(failAt)))
    /\ run' = NoRun
    /\ lastOp' = Label("reset")

ClearHistory(confirmed, failAt) ==
    /\ failAt # 0 => faults < MaxFaults
    /\ failAt # 0 => confirmed
    /\ Commit(clearAllHistory(Cur(failAt), confirmed))
    /\ faults' = faults + Thrown(clearAllHistory(Cur(failAt), confirmed))
    /\ run' = IF confirmed THEN NoRun ELSE run
    /\ lastOp' = Label("other")

Export ==
    /\ Commit(exportFullPDF(Cur(0)))
    /\ UNCHANGED <<faults, run>>
    /\ lastOp' = Label("other")

RangeChange(r) ==
    /\ r # reportRange
    /\ Commit(rangeChanged(Cur(0), r))
    /\ UNCHANGED <<faults, run>>
    /\ lastOp' = Label("other")

\* ------------------------------------------------------------ specification
\* after the script has run on empty storage: loadFromStorage finds no item,
\* updateChart("all") draws the default window, the display shows the defaults
Boot(s) ==
    [updateChart(s, AllText) EXCEPT !.phaseDisplay = PressStart,
                                    !.timeDisplay = <<"0", "0">>]

Blank ==
    [inhaleInput |-> <<"2">>, holdInput |-> <<"1">>, exhaleInput |-> <<"1">>,
     reportRange |-> AllText, phaseDisplay |-> "", timeDisplay |-> <<>>,
     pauseBtnText |-> "Pause", cycle |-> <<>>, cycleIndex |-> 0, timeLeft |-> 0,
     timerId |-> 0, intervals |-> <<>>, running |-> FALSE, paused |-> FALSE,
     sessionStartTime |-> NoTime, sessionCycles |-> 0, sessionActive |-> FALSE,
     historyData |-> <<>>, sessionSummaries |-> <<>>, progressData |-> <<>>,
     chart |-> NoChart, stHistory |-> <<>>, stSessions |-> <<>>, stProgress |-> <<>>,
     pdf |-> NoPdf, now |-> 0, threw |-> FALSE, writes |-> 0, failAt |-> 0]

InitState(s) ==
    /\ inhaleInput = s.inhaleInput /\ holdInput = s.holdInput
    /\ exhaleInput = s.exhaleInput /\ reportRange = s.reportRange
    /\ phaseDisplay = s.phaseDisplay /\ timeDisplay = s.timeDisplay
    /\ pauseBtnText = s.pauseBtnText /\ cycle = s.cycle
    /\ cycleIndex = s.cycleIndex /\ timeLeft = s.timeLeft
    /\ timerId = s.timerId /\ intervals = s.intervals
    /\ running = s.running /\ paused = s.paused
    /\ sessionStartTime = s.sessionStartTime /\ sessionCycles = s.sessionCycles
    /\ sessionActive = s.sessionActive /\ historyData = s.historyData
    /\ sessionSummaries = s.sessionSummaries /\ progressData = s.progressData
    /\ chart = s.chart /\ stHistory = s.stHistory /\ stSessions = s.stSessions
    /\ stProgress = s.stProgress /\ pdf = s.pdf /\ now = s.now

Init ==
    /\ InitState(Boot(Blank))
    /\ lastOp = "untraced"
    /\ faults = 0
    /\ run = NoRun

Next ==
    \/ \E e \in EditChoices : EditInput(e[1], e[2])
    \/ ClockAdvance
    \/ Start
    \/ \E id \in DOMAIN intervals, f \in FailPoints, adv \in 0..1 : Tick(id, f, adv)
    \/ PauseOrResume
    \/ \E f \in FailPoints : Reset(f)
    \/ \E c \in BOOLEAN, f \in FailPoints : ClearHistory(c, f)
    \/ Export
    \/ \E r \in RangeValues : RangeChange(r)

Spec == Init /\ [][Next]_vars

\* the same program, with the handler of each step recorded in lastOp
InitTraced ==
    /\ InitState(Boot(Blank))
    /\ lastOp = "other"
    /\ faults = 0
    /\ run = NoRun

SpecTraced == InitTraced /\ [][Next]_vars

\* ------------------------------------------------------------ the range queries alone
MaxAge == 8                         \* age in days of the oldest stored entry
FilterRanges == { AllText, <<"6">>, <<"7">>, <<"8">> }
FilterNows == (MaxAge * TicksPerDay)..((MaxAge + 1) * TicksPerDay)

StoredEntry(t) ==
    [ts |-> t, phase |-> "Exhale", duration |-> 1, text |-> EntryText("Exhale", 1)]

\* the progress map an uninterrupted program builds beside the history hist
ProgressOf(hist) ==
    LET keys == { DateKey(hist[i].ts) : i \in 1..Len(hist) }
    IN  [k \in keys |-> Cardinality({ i \in 1..Len(hist) :
                            hist[i].phase = "Exhale" /\ DateKey(hist[i].ts) = k })]

\* the script has run on a storage that holds two logged cycles
InitFilter ==
    \E t \in FilterNows, r \in FilterRanges :
    \E t2 \in (t - MaxAge * TicksPerDay)..t :
    \E t1 \in (t - MaxAge * TicksPerDay)..t2 :
        LET hist == <<StoredEntry(t1), StoredEntry(t2)>>
            loaded == [Blank EXCEPT !.now = t, !.historyData = hist,
                                    !.progressData = ProgressOf(hist),
                                    !.stHistory = <<hist>>,
                                    !.stProgress = <<ProgressOf(hist)>>]
        IN  /\ InitState([Boot(loaded) EXCEPT !.reportRange = r])
            /\ lastOp = "other"
            /\ faults = 0
            /\ run = NoRun

NextFilter ==
    \/ Export
    \/ \E r \in FilterRanges : RangeChange(r)

SpecFilter == InitFilter /\ [][NextFilter]_vars


\* ------------------------------------------------------------ steps
TickStep == \E id \in DOMAIN intervals, f \in FailPoints, adv \in 0..1 : Tick(id, f, adv)
ResetStep == \E f \in FailPoints : Reset(f)
ConfirmedClearStep == \E f \in FailPoints : ClearHistory(TRUE, f)

IsPrefix(a, b) == Len(a) <= Len(b) /\ \A i \in 1..Len(a) : a[i] = b[i]
Last(q) == q[Len(q)]
Val(text) == ParseInt(text).val
IsPositive(text) == ~ParseInt(text).nan /\ ParseInt(text).val > 0
ExhalesOn(hist, day) ==
    Cardinality({ i \in 1..Len(hist) : hist[i].phase = "Exhale" /\ DateKey(hist[i].ts) = day })
Days == (0..DateKey(MaxNow)) \cup DOMAIN progressData

\* ------------------------------------------------------------ C1
\* C1: for positive configured durations (a,b,c), a start from idle followed by
\* exactly a+b+c unpaused ticks gives sessionCycles = 1 and exactly three new
\* history entries Inhale, Hold, Exhale with durations a, b, c.
C1_OneCycleAfterABCTicks ==
    (/\ run.clean
     /\ \A i \in 1..3 : IsPositive(run.cfg[i])
     /\ run.ticks = Val(run.cfg[1]) + Val(run.cfg[2]) + Val(run.cfg[3]))
    => /\ sessionCycles = 1
       /\ Len(historyData) = run.base + 3
       /\ historyData[run.base + 1].phase = "Inhale"
       /\ historyData[run.base + 2].phase = "Hold"
       /\ historyData[run.base + 3].phase = "Exhale"
       /\ \A i \in 1..3 : historyData[run.base + i].duration = Val(run.cfg[i])

\* ------------------------------------------------------------ C2
\* C2: a tick in which a localStorage write throws, while the session is running
\* and not paused, leaves a tick source active.
C2_TimerSurvivesWriteFailure ==
    [][(running /\ ~paused /\ TickStep /\ faults' > faults)
         => DOMAIN intervals' # {}]_vars

\* ------------------------------------------------------------ C3
\* C3: for every day, the progress count of the day equals the number of Exhale
\* history entries whose timestamp falls on that day.
C3_ProgressMatchesLedger ==
    \A d \in Days : Get0(progressData, d) = ExhalesOn(historyData, d)

\* ------------------------------------------------------------ C4
\* C4: in every reachable state the engine is running iff a session is active.
C4_RunningIffSessionActive == running = sessionActive

\* ------------------------------------------------------------ C5
\* C5: startCycle while the engine is running (paused or not) changes none of
\* sessionCycles, cycleIndex, timeLeft, paused, the session start time, the
\* configured durations and the active tick source.
C5_StartWhileRunningIsNoOp ==
    [][(running /\ Start)
         => UNCHANGED <<sessionCycles, cycleIndex, timeLeft, paused, sessionStartTime,
                        cycle, timerId, intervals>>]_vars

C5_Witness == lastOp = "start" /\ paused /\ sessionCycles = 1 /\ timeLeft = 1

\* ------------------------------------------------------------ C6
\* C6: no time elapses while paused: every tick received while paused, and the
\* resume that follows, leave timeLeft, cycleIndex, sessionCycles, the three stores
\* and their persisted items as they were when the pause began.
C6_NoTimeElapsesWhilePaused ==
    [][(paused /\ (TickStep \/ PauseOrResume))
         => UNCHANGED <<timeLeft, cycleIndex, sessionCycles, historyData, sessionSummaries,
                        progressData, stHistory, stSessions, stProgress>>]_vars

C6_Witness == lastOp = "tick" /\ paused /\ timeLeft = 1 /\ cycleIndex = 2

\* ------------------------------------------------------------ C7
\* C7: resetCycle during an active session appends exactly one summary whose cycles
\* field is the sessionCycles accumulated so far, and leaves the pre-start state.
C7_ResetFinalizesAndReturnsToIdle ==
    [][(sessionActive /\ ResetStep)
         => /\ Len(sessionSummaries') = Len(sessionSummaries) + 1
            /\ IsPrefix(sessionSummaries, sessionSummaries')
            /\ Last(sessionSummaries').cycles = sessionCycles
            /\ ~running' /\ ~paused' /\ ~sessionActive'
            /\ sessionCycles' = 0 /\ cycleIndex' = 0 /\ timeLeft' = 0
            /\ phaseDisplay' = PressStart /\ timeDisplay' = <<"0", "0">>
            /\ DOMAIN intervals' = {}]_vars

\* ------------------------------------------------------------ C8
\* C8: the inhale/hold/exhale values of a stored summary are the durations of the
\* cycle the engine was running with.
C8_SummaryHoldsDurationsInEffect ==
    [][(sessionActive /\ ResetStep)
         => /\ Last(sessionSummaries').inhale = cycle[1].duration
            /\ Last(sessionSummaries').hold = cycle[2].duration
            /\ Last(sessionSummaries').exhale = cycle[3].duration]_vars


\* ------------------------------------------------------------ C9
SevenDaysAgoAndToday ==
    /\ Len(historyData) = 2
    /\ DateKey(historyData[1].ts) = DateKey(now) - 7
    /\ DateKey(historyData[2].ts) = DateKey(now)

\* C9 as stated: with one entry dated today and one dated exactly 7 days ago,
\* the "7" query returns both and the "6" query returns today's entry only.
C9_SevenReturnsBoth ==
    SevenDaysAgoAndToday
    => /\ pdf.range = <<"7">> => pdf.history = historyData
       /\ pdf.range = <<"6">> => pdf.history = <<historyData[2]>>

\* C9 as amended: with one entry dated today and one dated exactly 7 days ago, the
\* "7" query and the "6" query both return today's entry only (the last N days are
\* today and the N-1 days before it); the "8" query returns both.
C9_SevenExcludesSevenDaysAgo ==
    SevenDaysAgoAndToday
    => /\ pdf.range = <<"7">> => pdf.history = <<historyData[2]>>
       /\ pdf.range = <<"6">> => pdf.history = <<historyData[2]>>
       /\ pdf.range = <<"8">> => pdf.history = historyData

C9_Witness == SevenDaysAgoAndToday /\ pdf.range = <<"7">> /\ Len(pdf.history) = 1

\* ------------------------------------------------------------ C10
\* C10: every step other than a confirmed clear leaves the existing history
\* entries as an unchanged prefix of the ledger, and the ledger grows only by one
\* entry at its end, in a tick.
C10_HistoryAppendOnly ==
    [][\/ /\ IsPrefix(historyData, historyData')
          /\ historyData' # historyData
               => (TickStep /\ Len(historyData') = Len(historyData) + 1)
       \/ ConfirmedClearStep]_vars

C10_Witness == lastOp = "reset" /\ Len(historyData) = 3 /\ Len(sessionSummaries) = 1

\* ------------------------------------------------------------ C11
\* the stores a page load would hold, given the items now in localStorage
Reloaded ==
    loadFromStorage([Blank EXCEPT !.stHistory = stHistory, !.stSessions = stSessions,
                                  !.stProgress = stProgress])
DeclinedClearStep == \E f \in FailPoints : ClearHistory(FALSE, f)

\* C11: a declined clear leaves history, summaries, progress and their persisted
\* items unchanged; a confirmed clear leaves all three stores empty in memory and
\* in storage, so that the "all" query on each returns nothing.
C11_ClearOnlyWhenConfirmed ==
    [][/\ DeclinedClearStep
            => UNCHANGED <<historyData, sessionSummaries, progressData,
                           stHistory, stSessions, stProgress>>
       /\ ConfirmedClearStep
            => /\ historyData' = <<>> /\ sessionSummaries' = <<>> /\ progressData' = <<>>
               /\ Reloaded'.historyData = <<>>
               /\ Reloaded'.sessionSummaries = <<>>
               /\ Reloaded'.progressData = <<>>
               /\ filterHistoryByRange(historyData', AllText, now') = <<>>
               /\ filteredProgressForRange(progressData', AllText, now') = <<>>]_vars

\* ------------------------------------------------------------ C12
\* C12: at every handler boundary the persisted item of each store holds the
\* store's in-memory value: a reload yields the same history, summaries and progress.
C12_WriteThrough ==
    /\ Reloaded.historyData = historyData
    /\ Reloaded.sessionSummaries = sessionSummaries
    /\ Reloaded.progressData = progressData

\* ------------------------------------------------------------ C13
\* the configuration alone: every combination of input texts, then start
PositiveTexts == { <<"1">>, <<"3">>, <<"1", "2">> }
NegativeTexts == { <<"-", "1">> }
OtherTexts == { <<>>, <<"0">>, <<"a">> }          \* missing, zero, non-numeric
DurationTexts == PositiveTexts \cup NegativeTexts \cup OtherTexts

InitDurations ==
    \E a \in DurationTexts, b \in DurationTexts, c \in DurationTexts :
        /\ InitState([Boot(Blank) EXCEPT !.inhaleInput = a, !.holdInput = b,
                                         !.exhaleInput = c])
        /\ lastOp = "other"
        /\ faults = 0
        /\ run = NoRun

NextDurations == Start

SpecDurations == InitDurations /\ [][NextDurations]_vars

Defaults == <<DefaultInhale, DefaultHold, DefaultExhale>>
Inputs == <<inhaleInput, holdInput, exhaleInput>>

\* C13 as stated: once the cycle is configured, a positive integer input is the
\* phase's duration and any other input (missing, non-numeric, zero, negative)
\* gives the phase's default 4 / 7 / 8.
C13_NonPositiveYieldsDefault ==
    cycle # <<>> =>
        \A i \in 1..3 :
            cycle[i].duration = IF Inputs[i] \in PositiveTexts THEN Val(Inputs[i])
                                ELSE Defaults[i]

\* C13 as amended: a positive integer input is the phase's duration; a missing,
\* non-numeric or zero input gives the default 4 / 7 / 8; a negative input gives 1.
C13_NegativeYieldsOne ==
    cycle # <<>> =>
        \A i \in 1..3 :
            cycle[i].duration = IF Inputs[i] \in PositiveTexts THEN Val(Inputs[i])
                                ELSE IF Inputs[i] \in NegativeTexts THEN 1
                                ELSE Defaults[i]

C13_Witness ==
    /\ cycle # <<>>
    /\ inhaleInput = <<"-", "1">> /\ cycle[1].duration = 1
    /\ holdInput = <<"0">> /\ cycle[2].duration = DefaultHold
    /\ exhaleInput = <<"1", "2">> /\ cycle[3].duration = 12

\* ------------------------------------------------------------ C14
\* C14: while the engine is running (paused or not) no step, an edit of the inputs
\* included, changes the configured durations; every history entry a tick appends
\* and every phase a tick starts carries the duration configured at the start of
\* the run; a start from idle configures the cycle from the inputs as they are then.
C14_ReconfigurationWaitsForStart ==
    [][/\ running => cycle' = cycle
       /\ (TickStep /\ Len(historyData') = Len(historyData) + 1)
            => Last(historyData').duration = cycle[cycleIndex + 1].duration
       /\ (TickStep /\ timerId' # timerId)
            => /\ timeLeft' = cycle[cycleIndex' + 1].duration
               /\ intervals'[timerId'].duration = cycle[cycleIndex' + 1].duration
       /\ (~running /\ Start)
            => \A i \in 1..3 : cycle'[i].duration = DurationFrom(Inputs[i], Defaults[i])]_vars

C14_Witness ==
    /\ running /\ cycleIndex = 1 /\ timeLeft = 1
    /\ inhaleInput = <<"2">> /\ cycle[1].duration = 1
    /\ Len(historyData) = 1 /\ historyData[1].duration = 1

PhaseCompletionStep == TickStep /\ Len(historyData') = Len(historyData) + 1

\* C16: once a cycle has been configured, cycleIndex is 0, 1 or 2, each of the
\* three durations is at least 1 and 0 <= timeLeft <= the duration of the phase at
\* cycleIndex; the index changes only to (cycleIndex + 1) mod 3 on a phase
\* completion, or to 0 on start or reset.
C16_CycleStateInvariant ==
    /\ [](cycle # <<>> =>
            /\ Len(cycle) = 3
            /\ cycleIndex \in 0..2
            /\ \A i \in 1..3 : cycle[i].duration >= 1
            /\ 0 <= timeLeft
            /\ timeLeft <= cycle[cycleIndex + 1].duration)
    /\ [][cycleIndex' # cycleIndex =>
            \/ PhaseCompletionStep /\ cycleIndex' = (cycleIndex + 1) % 3
            \/ cycleIndex' = 0 /\ (Start \/ ResetStep)]_vars

\* the index has wrapped from Exhale back to Inhale
C16_Witness ==
    /\ running /\ cycleIndex = 0 /\ sessionCycles = 1 /\ Len(historyData) = 3
    /\ timeLeft = cycle[1].duration

\* ------------------------------------------------------------ C17
\* C17: a summary is appended exactly once per session: a reset during an active
\* session appends one summary and ends the session, nothing else appends one, and
\* a reset with no active session leaves the three stores and their items unchanged.
C17_SummaryOncePerSession ==
    [][/\ (sessionActive /\ ResetStep)
            => /\ Len(sessionSummaries') = Len(sessionSummaries) + 1
               /\ ~sessionActive'
       /\ (~sessionActive /\ ResetStep)
            => UNCHANGED <<historyData, sessionSummaries, progressData,
                           stHistory, stSessions, stProgress>>
       /\ sessionSummaries' # sessionSummaries
            => \/ ConfirmedClearStep
               \/ /\ sessionActive /\ ResetStep
                  /\ IsPrefix(sessionSummaries, sessionSummaries')]_vars

\* the engine was stopped by a second reset: the first one, whose write threw,
\* had ended the session and left the engine running
C17_Witness ==
    /\ ~running /\ ~sessionActive /\ faults = 1
    /\ Len(sessionSummaries) = 1 /\ stSessions = <<>>

\* ------------------------------------------------------------ C18
\* C18: paused implies running in every reachable state (the control state is
\* Idle, Running or Paused); pauseOrResume while idle changes nothing; Paused is
\* entered only from Running by pauseOrResume and left only by pauseOrResume (to
\* Running) or by reset (to Idle).
C18_IdleRunningPaused ==
    /\ [](paused => running)
    /\ [][/\ (~running /\ PauseOrResume)
               => UNCHANGED <<running, paused, sessionActive, sessionStartTime,
                              sessionCycles, cycle, cycleIndex, timeLeft, timerId,
                              intervals, phaseDisplay, timeDisplay, pauseBtnText,
                              historyData, sessionSummaries, progressData, chart,
                              stHistory, stSessions, stProgress>>
          /\ (~paused /\ paused') => (running /\ running' /\ PauseOrResume)
          /\ (paused /\ ~paused')
               => \/ PauseOrResume /\ running'
                  \/ ResetStep /\ ~running']_vars

C18_Witness ==
    /\ running /\ paused /\ pauseBtnText = "Resume"
    /\ cycleIndex = 1 /\ timeLeft = 1 /\ sessionCycles = 0

\* ------------------------------------------------------------ C19
RangeChangeStep == \E r \in RangeValues : RangeChange(r)
DefaultWindow(t) == [i \in 1..ChartWindow |-> DateKey(t - (ChartWindow - i) * TicksPerDay)]

\* C19: when no progress day lies within the selected range, the chart updateChart
\* builds is the window of the last 7 days (today and the 6 days before it, in
\* chronological order) and every one of its 7 values is 0.
C19_EmptyRangeShowsZeroWindow ==
    [][(RangeChangeStep /\ filteredProgressForRange(progressData, reportRange', now) = <<>>)
         => /\ chart'.labels = DefaultWindow(now)
            /\ Len(chart'.values) = ChartWindow
            /\ \A i \in 1..Len(chart'.values) : chart'.values[i] = 0]_vars

\* ------------------------------------------------------------ C20
PhaseIndex(p) == IF p = "Inhale" THEN 0 ELSE IF p = "Hold" THEN 1 ELSE 2
SessionStartStep == ~running /\ Start

\* C20: the entries appended since a session started follow the order Inhale,
\* Hold, Exhale beginning with Inhale (the k-th has phase index (k-1) mod 3), and
\* sessionCycles is the number of Exhale entries among them, i.e. their number
\* divided by 3, rounded down; sessionCycles increases by exactly 1 on an Exhale
\* completion and on no other event.
C20_CyclicOrderAndCycleCount ==
    /\ [](run.clean =>
            /\ sessionCycles = (Len(historyData) - run.base) \div 3
            /\ \A k \in 1..(Len(historyData) - run.base) :
                   PhaseIndex(historyData[run.base + k].phase) = (k - 1) % 3)
    /\ [][/\ SessionStartStep => (cycleIndex' = 0 /\ sessionCycles' = 0)
          /\ PhaseCompletionStep
               => /\ PhaseIndex(Last(historyData').phase) = cycleIndex
                  /\ sessionCycles' = sessionCycles +
                        (IF Last(historyData').phase = "Exhale" THEN 1 ELSE 0)
          /\ sessionCycles' > sessionCycles
               => /\ PhaseCompletionStep
                  /\ Last(historyData').phase = "Exhale"
                  /\ sessionCycles' = sessionCycles + 1]_vars

====
